---- MODULE Spec2Model ----
(***************************************************************************)
(* Model of sync.py: event-aligned spike windows, per-event synchrony      *)
(* profiles, truncation-averaging, and the date-ordered batch over a       *)
(* directory of recordings.                                                *)
(*                                                                         *)
(* Real numbers are rationals [n, d] in lowest terms with d > 0; sample     *)
(* indices are integers.  The times and the sampling rate of the           *)
(* extraction are binary floating-point numbers: each is a rational with   *)
(* a significand of Precision bits, and the product of line 19 and the     *)
(* quotient of line 44 are rounded to nearest, ties to even, as IEEE 754   *)
(* arithmetic does (binary64 has 53 bits; exponent range is not limited    *)
(* here).  Profile values and their means are exact rationals.             *)
(* An ordered duplicate-free numeric array (a unit's spike samples, a      *)
(* window) is represented by the set of its elements.                      *)
(***************************************************************************)
EXTENDS Integers, Sequences, FiniteSets, TLC

VARIABLES
    pc,                       \* position in the running function
    params,                   \* arguments of process_multiple_sessions_from_directory
    listing,                  \* os.listdir(directory_path), in the order returned
    file_paths,               \* the .pkl paths, after the sort of line 144
    fi,                       \* number of loop iterations of line 149 started
    session_names,            \* line 147
    avg_sync_values,          \* line 146
    figures,                  \* figures shown so far (plt.show), in order
    error,                    \* exception that ended the run, or "none"
    data,                     \* the unpickled recording of the current call
    call,                     \* parameters as bound inside extract_spike_trains_from_pickle
    stim_event_spike_trains,  \* line 23
    printed,                  \* lines printed by the current extract call
    ei,                       \* events consumed by the loop of line 71
    sync_profiles,            \* line 66
    min_length,               \* line 67
    adaptive_time_windows,    \* line 68
    avg_sync_profile,         \* lines 88/91
    avg_sync_value,           \* lines 89/92
    profiled                  \* history: positions of the events whose iteration of
                              \* the loop of line 71 took the branch of line 73

vars == <<pc, params, listing, file_paths, fi, session_names, avg_sync_values,
          figures, error, data, call, stim_event_spike_trains, printed, ei,
          sync_profiles, min_length, adaptive_time_windows, avg_sync_profile,
          avg_sync_value, profiled>>

batchVars == <<params, listing, file_paths, fi, session_names, avg_sync_values, figures>>
extractVars == <<data, call, stim_event_spike_trains, printed>>
syncVars == <<ei, sync_profiles, min_length, adaptive_time_windows,
              avg_sync_profile, avg_sync_value, profiled>>

---------------------------------------------------------------------------
(* Bounds of the model *)

\* sample indices (spike samples, stimulus timestamps) range over 0..MaxSample
MaxSample == 4
\* a recording has at most MaxStim stimulus entries
MaxStim == 2
\* the synchrony capability returns profiles of 2..MaxProfileLen samples
MaxProfileLen == 3
\* a session handed to calculate_sync_profiles has at most MaxEvents events
MaxEvents == 2
\* the directory listing holds at most MaxFiles entries
MaxFiles == 3
\* bits of the significand of a floating-point number
Precision == 5

---------------------------------------------------------------------------
(* Rational and floating-point arithmetic *)

RECURSIVE GCD(_, _)
GCD(a, b) == IF b = 0 THEN a ELSE GCD(b, a % b)

Abs(x) == IF x < 0 THEN -x ELSE x

\* the rational n/d (d # 0) in lowest terms with a positive denominator
Frac(n, d) ==
    LET g == GCD(Abs(n), Abs(d))
        s == IF d < 0 THEN -1 ELSE 1
    IN  [n |-> s * (n \div g), d |-> s * (d \div g)]

FromInt(i) == [n |-> i, d |-> 1]
Zero == FromInt(0)
RAdd(a, b) == Frac(a.n * b.d + b.n * a.d, a.d * b.d)
RSub(a, b) == Frac(a.n * b.d - b.n * a.d, a.d * b.d)
RMul(a, b) == Frac(a.n * b.n, a.d * b.d)
RDiv(a, b) == Frac(a.n * b.d, a.d * b.n)
RLeq(a, b) == a.n * b.d <= b.n * a.d
RLt(a, b) == a.n * b.d < b.n * a.d

RECURSIVE Pow2(_)
Pow2(k) == IF k = 0 THEN 1 ELSE 2 * Pow2(k - 1)

\* n/d > 0 rounded to a significand of Precision bits, times up/down; the
\* significand is the quotient rounded to nearest, ties to even
RECURSIVE RoundPositive(_, _, _, _)
RoundPositive(n, d, up, down) ==
    IF n < Pow2(Precision - 1) * d THEN RoundPositive(2 * n, d, up, 2 * down)
    ELSE IF n >= Pow2(Precision) * d THEN RoundPositive(n, 2 * d, 2 * up, down)
    ELSE LET m == n \div d
             rem == n - m * d
             sig == IF 2 * rem > d \/ (2 * rem = d /\ m % 2 = 1) THEN m + 1 ELSE m
         IN  Frac(sig * up, down)

\* the floating-point number nearest to the rational r
Fl(r) ==
    IF r.n = 0 THEN r
    ELSE IF r.n > 0 THEN RoundPositive(r.n, r.d, 1, 1)
    ELSE LET a == RoundPositive(-r.n, r.d, 1, 1) IN [n |-> -a.n, d |-> a.d]

\* float * float and float / float
FMul(a, b) == Fl(RMul(a, b))
FDiv(a, b) == Fl(RDiv(a, b))

\* Python int(x) on a real: truncation toward zero
TruncInt(r) == IF r.n >= 0 THEN r.n \div r.d ELSE -((-r.n) \div r.d)

---------------------------------------------------------------------------
(* extract_spike_trains_from_pickle, lines 8-63 *)

None == "none"

\* a stimulus entry of stim_trains: a bare sample index, or a list of them
Single(t) == [kind |-> "scalar", t |-> t]
List(ts) == [kind |-> "list", ts |-> ts]

\* lines 28-29: a non-list entry is wrapped into a one-element list
AsList(entry) == IF entry.kind = "list" THEN entry.ts ELSE <<entry.t>>

\* line 32: truth value of a list
Truthy(ts) == Len(ts) > 0

\* a buggy anchor: the last timestamp of the group
LastTimestamp(ts) == ts[Len(ts)]

\* line 33: stim_time = stim_timestamps[0]
StimTime(ts) == ts[1]

\* lines 19-20: int(seconds * sampling_rate)
ToSamples(seconds, sampling_rate) == TruncInt(FMul(seconds, sampling_rate))

\* line 42: spike_times[(spike_times >= start_time) & (spike_times <= end_time)]
SpikesInWindow(spike_times, start_time, end_time) ==
    {t \in spike_times : t >= start_time /\ t <= end_time}

\* line 44: (spikes_in_window - stim_time) / sampling_rate
Adjusted(spikes_in_window, stim_time, sampling_rate) ==
    {FDiv(FromInt(t - stim_time), sampling_rate) : t \in spikes_in_window}

\* line 46: spk.SpikeTrain(adjusted_spike_times, edges=(pre, post))
SpikeTrain(spikes, t_start, t_end) == [spikes |-> spikes, edges |-> <<t_start, t_end>>]

\* lines 33-54: the event of the stimulus entry at (1-based) position i
EventAt(d, c, i) ==
    LET stim_timestamps == AsList(d.stim_trains[i])
        stim_time == StimTime(stim_timestamps)
        start_time == stim_time + ToSamples(c.pre_stimulus_time, d.sampling_rate)
        end_time == stim_time + ToSamples(c.post_stimulus_time, d.sampling_rate)
        dict == d.unit_spike_train_dict
    IN  [stim_index |-> i - 1,
         stim_time |-> stim_time,
         spike_trains |->
            [u \in DOMAIN dict |->
                SpikeTrain(Adjusted(SpikesInWindow(dict[u], start_time, end_time),
                                    stim_time, d.sampling_rate),
                           c.pre_stimulus_time, c.post_stimulus_time)]]

\* lines 26-54: the loop over enumerate(stim_trains), first k entries
RECURSIVE EventsUpTo(_, _, _)
EventsUpTo(d, c, k) ==
    IF k = 0 THEN <<>>
    ELSE LET before == EventsUpTo(d, c, k - 1)
         IN  IF Truthy(AsList(d.stim_trains[k]))
             THEN Append(before, EventAt(d, c, k))
             ELSE before

ExtractEvents(d, c) == EventsUpTo(d, c, Len(d.stim_trains))

\* a buggy test: warns only when too many events were extracted
TooMany(n_events, n_stim) == n_events > n_stim

\* line 60: len(stim_event_spike_trains) != len(stim_trains)
Discrepancy(n_events, n_stim) == n_events # n_stim

\* lines 57-61: what the call prints
ExtractPrints(d, events) ==
    <<[msg |-> "total", n |-> Len(d.stim_trains)]>>
    \o (IF Discrepancy(Len(events), Len(d.stim_trains))
        THEN <<[msg |-> "warning", extracted |-> Len(events),
                expected |-> Len(d.stim_trains)]>>
        ELSE <<>>)

\* The literals of the signatures (lines 8, 96, 139): -1.2, -0.7, 1.4, 1.9
DefaultPre == Fl(Frac(-12, 10))
DefaultPlotStart == Fl(Frac(-7, 10))
DefaultPost == Fl(Frac(14, 10))
DefaultFullPost == Fl(Frac(19, 10))
\* line 8: default of extract_spike_trains_from_pickle's post_stimulus_time
ExtractDefaultPost == Fl(Frac(19, 10))

---------------------------------------------------------------------------
(* Inputs of the extraction *)

Samples == 0..MaxSample
Onsets == {1, 2}

\* sequences over S of length at most n
SeqsUpTo(S, n) == UNION {[1..k -> S] : k \in 0..n}

StimEntries ==
    {Single(t) : t \in Onsets}
    \cup {List(<<>>), List(<<1, 3>>)}

StimTrains == SeqsUpTo(StimEntries, MaxStim)

\* no unit, one unit with any spike samples, or that unit and a second one that
\* fires at the other samples
SpikeDicts ==
    {<<>>}
    \cup {[u \in {"u1"} |-> S] : S \in SUBSET Samples}
    \cup {[u \in {"u1", "u2"} |-> IF u = "u1" THEN S ELSE Samples \ S] :
            S \in SUBSET Samples}

\* floating-point rates and times
Rates == {Fl(Frac(1, 1)), Fl(Frac(13, 8))}
PreTimes == {DefaultPre, Fl(Frac(-1, 2))}
PostTimes == {ExtractDefaultPost, Fl(Frac(29, 16)), Fl(Frac(1, 2))}

Recordings ==
    [unit_spike_train_dict : SpikeDicts, stim_trains : StimTrains, sampling_rate : Rates]

ExtractCalls ==
    [pre_stimulus_time : PreTimes, plot_start_time : {DefaultPlotStart},
     post_stimulus_time : PostTimes]

NoData == [unit_spike_train_dict |-> <<>>, stim_trains |-> <<>>, sampling_rate |-> Frac(1, 1)]
NoCall == [pre_stimulus_time |-> DefaultPre, plot_start_time |-> DefaultPlotStart,
           post_stimulus_time |-> ExtractDefaultPost]
NoParams == [pre_stimulus_time |-> DefaultPre, plot_start_time |-> DefaultPlotStart,
             post_stimulus_time |-> DefaultPost,
             full_post_stimulus_time |-> DefaultFullPost]

\* -1 stands for float('inf') of line 67
Infinity == -1

BatchIdle ==
    /\ params = NoParams
    /\ listing = <<>>
    /\ file_paths = <<>>
    /\ fi = 0
    /\ session_names = <<>>
    /\ avg_sync_values = <<>>
    /\ figures = <<>>

SyncIdle ==
    /\ ei = 0
    /\ sync_profiles = <<>>
    /\ min_length = Infinity
    /\ adaptive_time_windows = <<>>
    /\ avg_sync_profile = <<>>
    /\ avg_sync_value = Zero
    /\ profiled = <<>>

\* lines 8-63 as one step: the whole call on the loaded recording
Extract ==
    /\ pc = "extract"
    /\ stim_event_spike_trains' = ExtractEvents(data, call)
    /\ printed' = ExtractPrints(data, stim_event_spike_trains')
    /\ pc' = "extracted"
    /\ UNCHANGED <<data, call, error>>
    /\ UNCHANGED batchVars
    /\ UNCHANGED syncVars

InitExtract ==
    /\ pc = "extract"
    /\ error = None
    /\ data \in Recordings
    /\ call \in ExtractCalls
    /\ stim_event_spike_trains = <<>>
    /\ printed = <<>>
    /\ BatchIdle
    /\ SyncIdle

NextExtract == Extract

SpecExtract == InitExtract /\ [][NextExtract]_vars

---------------------------------------------------------------------------
(* calculate_sync_profiles, lines 65-94 *)

\* a buggy test: one spike train is taken to be enough
AtLeastOne(n) == n > 0

\* line 73: len(spike_trains) > 1
EnoughTrains(n) == n > 1

\* line 72: list(event['spike_trains'].values()) has one train per unit of the dict
NumTrains(event) == Cardinality(DOMAIN event.spike_trains)

\* line 77: sync_profile.y / len(spike_trains)
Normalised(y, k) == [i \in 1..Len(y) |-> RDiv(y[i], FromInt(k))]

\* line 81: sync_profile.x[1:] - sync_profile.x[:-1]
Differences(x) == [i \in 1..(Len(x) - 1) |-> RSub(x[i + 1], x[i])]

\* line 79: min(min_length, n), with min_length possibly float('inf')
MinLength(m, n) == IF m = Infinity \/ n < m THEN n ELSE m

\* a buggy truncation: keeps the last n samples
LastSamples(profile, n) == SubSeq(profile, Len(profile) - n + 1, Len(profile))

\* line 84: profile[:min_length]
Truncate(profile, n) == SubSeq(profile, 1, n)

RECURSIVE SumSeq(_)
SumSeq(q) == IF q = <<>> THEN Zero ELSE RAdd(q[1], SumSeq(Tail(q)))

\* np.mean of a one-dimensional array
Mean(q) == RDiv(SumSeq(q), FromInt(Len(q)))

\* line 88: np.mean(rows, axis=0) of equally long rows
MeanAxis0(rows) ==
    [i \in 1..Len(rows[1]) |-> Mean([r \in 1..Len(rows) |-> rows[r][i]])]

\* lines 66-68: entry of calculate_sync_profiles(session_spike_trains), line 157
SyncEnter ==
    /\ pc = "extracted"
    /\ pc' = "calc"
    /\ ei' = 0
    /\ sync_profiles' = <<>>
    /\ min_length' = Infinity
    /\ adaptive_time_windows' = <<>>
    /\ profiled' = <<>>
    /\ UNCHANGED <<avg_sync_profile, avg_sync_value, error>>
    /\ UNCHANGED batchVars
    /\ UNCHANGED extractVars

\* lines 71-81: one iteration of the loop over the events; spk.spike_sync_profile
\* is the external capability, its result any profile of the set P
SyncEvent(P) ==
    /\ pc = "calc"
    /\ ei < Len(stim_event_spike_trains)
    /\ LET event == stim_event_spike_trains[ei + 1]
           k == NumTrains(event)
       IN  IF EnoughTrains(k)
           THEN \E sync_profile \in P :
                  LET y == Normalised(sync_profile.y, k)
                  IN  /\ sync_profiles' = Append(sync_profiles, y)
                      /\ min_length' = MinLength(min_length, Len(y))
                      /\ adaptive_time_windows' =
                            adaptive_time_windows \o Differences(sync_profile.x)
                      /\ profiled' = Append(profiled, ei + 1)
           ELSE UNCHANGED <<sync_profiles, min_length, adaptive_time_windows, profiled>>
    /\ ei' = ei + 1
    /\ UNCHANGED <<pc, error, avg_sync_profile, avg_sync_value>>
    /\ UNCHANGED batchVars
    /\ UNCHANGED extractVars

\* lines 84-94: truncation to the minimum length and averaging
Aggregate ==
    /\ pc = "calc"
    /\ ei = Len(stim_event_spike_trains)
    /\ LET truncated_sync_profiles ==
               [r \in 1..Len(sync_profiles) |-> Truncate(sync_profiles[r], min_length)]
       IN  IF truncated_sync_profiles # <<>>
           THEN /\ avg_sync_profile' = MeanAxis0(truncated_sync_profiles)
                /\ avg_sync_value' = Mean(avg_sync_profile')
           ELSE /\ avg_sync_profile' = <<>>
                /\ avg_sync_value' = Zero
    /\ pc' = "aggregated"
    /\ UNCHANGED <<ei, sync_profiles, min_length, adaptive_time_windows, profiled, error>>
    /\ UNCHANGED batchVars
    /\ UNCHANGED extractVars

---------------------------------------------------------------------------
(* Inputs of calculate_sync_profiles *)

\* results of the capability: L samples at evenly spaced positions over [0, 1],
\* with raw values constant 0, constant 1, rising or falling along the profile
ProfileOf(L, shape) ==
    [x |-> [i \in 1..L |-> Frac(i - 1, L - 1)],
     y |-> [i \in 1..L |->
              FromInt(CASE shape = "zero" -> 0
                        [] shape = "one" -> 1
                        [] shape = "rise" -> i
                        [] OTHER -> L - i)]]

Profiles ==
    {ProfileOf(L, shape) : L \in 2..MaxProfileLen, shape \in {"zero", "one", "rise", "fall"}}

Silent == SpikeTrain({}, DefaultPre, DefaultFullPost)
Firing == SpikeTrain({Zero}, DefaultPre, DefaultFullPost)

\* the unit windows of an event: no unit, one unit, two units of which none, one
\* or both fired, three units
EventTrains ==
    {<<>>,
     [u \in {"u1"} |-> Silent],
     [u \in {"u1"} |-> Firing],
     [u \in {"u1", "u2"} |-> Silent],
     [u \in {"u1", "u2"} |-> IF u = "u1" THEN Firing ELSE Silent],
     [u \in {"u1", "u2"} |-> Firing],
     [u \in {"u1", "u2", "u3"} |-> Firing]}

InitSync ==
    /\ pc = "calc"
    /\ error = None
    /\ data = NoData
    /\ call = NoCall
    /\ \E trains \in SeqsUpTo(EventTrains, MaxEvents) :
          stim_event_spike_trains =
              [j \in 1..Len(trains) |->
                  [stim_index |-> j - 1, stim_time |-> 1, spike_trains |-> trains[j]]]
    /\ printed = <<>>
    /\ BatchIdle
    /\ SyncIdle

SyncStep == SyncEvent(Profiles)

NextSync ==
    \/ SyncStep
    \/ Aggregate

SpecSync == InitSync /\ [][NextSync]_vars

---------------------------------------------------------------------------
(* Claims about extract_spike_trains_from_pickle, checked under SpecExtract *)

Events == stim_event_spike_trains
EventIndices == 1..Len(stim_event_spike_trains)
Extracted == pc = "extracted"

\* sample offset of a time in seconds: the floating-point product with the
\* sampling rate, truncated toward zero
Offset(seconds) ==
    LET product == Fl(Frac(seconds.n * data.sampling_rate.n,
                           seconds.d * data.sampling_rate.d))
    IN  IF product.n >= 0 THEN product.n \div product.d
        ELSE -((-product.n) \div product.d)

\* the time in seconds of sample t relative to sample t0: the floating-point
\* quotient by the sampling rate
Rescaled(t, t0) == Fl(Frac((t - t0) * data.sampling_rate.d, data.sampling_rate.n))

\* C2: with pre_stimulus_time < 0 < post_stimulus_time, every rescaled spike time
\* stored in an event's unit windows lies in [pre_stimulus_time, post_stimulus_time],
\* and the window of a unit holds exactly the unit's spikes t with
\* onset + int(pre*sr) <= t <= onset + int(post*sr), both ends included.
C2_SpikesWithinEdges ==
    (Extracted /\ RLt(call.pre_stimulus_time, Zero) /\ RLt(Zero, call.post_stimulus_time))
    => LET lo == Offset(call.pre_stimulus_time)
           hi == Offset(call.post_stimulus_time)
       IN  \A i \in EventIndices :
            \A u \in DOMAIN Events[i].spike_trains :
                /\ \A s \in Events[i].spike_trains[u].spikes :
                      /\ RLeq(call.pre_stimulus_time, s)
                      /\ RLeq(s, call.post_stimulus_time)
                /\ \A t \in data.unit_spike_train_dict[u] :
                      (Rescaled(t, Events[i].stim_time) \in Events[i].spike_trains[u].spikes)
                      <=> (Events[i].stim_time + lo <= t /\ t <= Events[i].stim_time + hi)

\* positions of the stimulus entries that hold at least one timestamp
NonEmptyEntries ==
    {i \in 1..Len(data.stim_trains) :
        data.stim_trains[i].kind = "list" => data.stim_trains[i].ts # <<>>}

Warnings == {k \in 1..Len(printed) : printed[k].msg = "warning"}

\* C7: exactly one event per stimulus entry that is not an empty list, in input
\* order and with the entry's 0-based position as stim_index; the count-mismatch
\* warning, giving the extracted and the expected count, is printed if and only
\* if the two counts differ.
C7_OneEventPerNonEmptyEntry ==
    Extracted =>
        /\ Len(Events) = Cardinality(NonEmptyEntries)
        /\ \A j \in EventIndices : Events[j].stim_index + 1 \in NonEmptyEntries
        /\ \A j, k \in EventIndices : j < k => Events[j].stim_index < Events[k].stim_index
        /\ (Warnings # {}) <=> (Len(Events) # Len(data.stim_trains))
        /\ \A k \in Warnings :
              /\ printed[k].extracted = Len(Events)
              /\ printed[k].expected = Len(data.stim_trains)

\* C7 witness: two entries, the first an empty list; one event with stim_index 1
\* and the warning "1 extracted, 2 expected".
C7_Witness ==
    /\ Extracted
    /\ Len(data.stim_trains) = 2
    /\ data.stim_trains[1] = List(<<>>)
    /\ Len(Events) = 1
    /\ Events[1].stim_index = 1
    /\ \E k \in Warnings : printed[k].extracted = 1 /\ printed[k].expected = 2

\* first timestamp of the stimulus entry at 1-based position i
FirstOf(i) ==
    IF data.stim_trains[i].kind = "list" THEN data.stim_trains[i].ts[1]
    ELSE data.stim_trains[i].t

\* C8: every event is anchored at the first timestamp of its stimulus entry:
\* stim_time is that timestamp, no entry yields two events, and a unit's spike is
\* in the window if and only if it lies in
\* [first + int(pre*sr), first + int(post*sr)].
C8_AnchoredAtFirstTimestamp ==
    Extracted =>
        LET lo == Offset(call.pre_stimulus_time)
            hi == Offset(call.post_stimulus_time)
        IN  /\ \A j, k \in EventIndices :
                  Events[j].stim_index = Events[k].stim_index => j = k
            /\ \A j \in EventIndices :
                LET first == FirstOf(Events[j].stim_index + 1)
                IN  /\ Events[j].stim_time = first
                    /\ \A u \in DOMAIN Events[j].spike_trains :
                        \A t \in data.unit_spike_train_dict[u] :
                            (Rescaled(t, first) \in Events[j].spike_trains[u].spikes)
                            <=> (first + lo <= t /\ t <= first + hi)

\* C8 witness: the group [1, 3] with a window of one sample around the onset;
\* the event is anchored at 1 and the spike at sample 3 is left out.
C8_Witness ==
    /\ Extracted
    /\ data.stim_trains = <<List(<<1, 3>>)>>
    /\ data.sampling_rate = Frac(1, 1)
    /\ call.pre_stimulus_time = Frac(-1, 2)
    /\ call.post_stimulus_time = Frac(1, 2)
    /\ data.unit_spike_train_dict = [u \in {"u1"} |-> {1, 3}]
    /\ Len(Events) = 1
    /\ Events[1].stim_time = 1
    /\ Events[1].spike_trains["u1"].spikes = {Zero}

---------------------------------------------------------------------------
(* Claims about calculate_sync_profiles, checked under SpecSync *)

InSync == pc \in {"calc", "aggregated"}

\* units of the event at position j, and those among them whose window holds a spike
UnitsOf(j) == DOMAIN Events[j].spike_trains
FiringUnitsOf(j) == {u \in UnitsOf(j) : Events[j].spike_trains[u].spikes # {}}

\* positions among the first n events whose event has at least two units
RECURSIVE TwoUnitEvents(_)
TwoUnitEvents(n) ==
    IF n = 0 THEN <<>>
    ELSE IF Cardinality(UnitsOf(n)) >= 2
         THEN Append(TwoUnitEvents(n - 1), n)
         ELSE TwoUnitEvents(n - 1)

ProfileLengths == {Len(sync_profiles[r]) : r \in 1..Len(sync_profiles)}

RECURSIVE IntervalCount(_)
IntervalCount(r) == IF r = 0 THEN 0 ELSE IntervalCount(r - 1) + Len(sync_profiles[r]) - 1

\* C3 as stated: an event yields a profile only when at least 2 of its units have
\* non-empty windows.
C3_OnlyWithTwoFiringUnits ==
    InSync => \A r \in 1..Len(profiled) : Cardinality(FiringUnitsOf(profiled[r])) >= 2

\* C3 amended: an event yields a profile and interval data exactly when its
\* spike_trains hold at least 2 units, whether or not their windows are empty;
\* an event with fewer than 2 units adds nothing to sync_profiles or to
\* adaptive_time_windows, leaves min_length alone, and raises no error.
C3_ProfileIffTwoUnits ==
    InSync =>
        /\ profiled = TwoUnitEvents(ei)
        /\ Len(sync_profiles) = Len(profiled)
        /\ Len(adaptive_time_windows) = IntervalCount(Len(sync_profiles))
        /\ min_length = Infinity <=> sync_profiles = <<>>
        /\ min_length # Infinity =>
              /\ min_length \in ProfileLengths
              /\ \A n \in ProfileLengths : min_length <= n
        /\ error = None

\* C3 witness: a one-unit event has been passed over with nothing recorded, and
\* then a two-unit event with one silent unit has produced a profile.
C3_Witness ==
    /\ pc = "calc"
    /\ ei = 2
    /\ Cardinality(UnitsOf(1)) = 1
    /\ Cardinality(UnitsOf(2)) = 2
    /\ Cardinality(FiringUnitsOf(2)) = 1
    /\ profiled = <<2>>
    /\ Len(sync_profiles) = 1
    /\ min_length = Len(sync_profiles[1])

\* sum over the profiles of their i-th sample, as a fraction over a common denominator
RECURSIVE ColumnSum(_, _)
ColumnSum(i, r) ==
    IF r = 0 THEN [n |-> 0, d |-> 1]
    ELSE LET rest == ColumnSum(i, r - 1)
             v == sync_profiles[r][i]
         IN  [n |-> rest.n * v.d + v.n * rest.d, d |-> rest.d * v.d]

RECURSIVE ProfileSum(_)
ProfileSum(i) ==
    IF i = 0 THEN [n |-> 0, d |-> 1]
    ELSE LET rest == ProfileSum(i - 1)
             v == avg_sync_profile[i]
         IN  [n |-> rest.n * v.d + v.n * rest.d, d |-> rest.d * v.d]

\* a = b / count, for fractions a and b and a positive integer count
IsQuotient(a, b, count) == a.n * b.d * count = b.n * a.d

\* C4: for a non-empty set of profiles of any lengths, avg_sync_profile is as long
\* as the shortest profile, avg_sync_profile[i] is the mean over all profiles of
\* their i-th normalised sample, and avg_sync_value is the mean of
\* avg_sync_profile; samples past the minimum length play no part.
C4_TruncationAveraging ==
    (pc = "aggregated" /\ sync_profiles # <<>>) =>
        /\ \A n \in ProfileLengths : Len(avg_sync_profile) <= n
        /\ Len(avg_sync_profile) \in ProfileLengths
        /\ \A i \in 1..Len(avg_sync_profile) :
              IsQuotient(avg_sync_profile[i], ColumnSum(i, Len(sync_profiles)),
                         Len(sync_profiles))
        /\ IsQuotient(avg_sync_value, ProfileSum(Len(avg_sync_profile)),
                      Len(avg_sync_profile))

\* C4 witness: two profiles of lengths 3 and 2 whose samples differ; the average
\* has 2 samples, (1/2 + 1/3)/2 and (1 + 0)/2, and the third sample 3/2 is dropped.
C4_Witness ==
    /\ pc = "aggregated"
    /\ Len(sync_profiles) = 2
    /\ sync_profiles[1] = <<Frac(1, 2), Frac(1, 1), Frac(3, 2)>>
    /\ sync_profiles[2] = <<Frac(1, 3), Frac(0, 1)>>
    /\ avg_sync_profile = <<Frac(5, 12), Frac(1, 2)>>
    /\ avg_sync_value = Frac(11, 24)

---------------------------------------------------------------------------
(* process_multiple_sessions_from_directory, lines 139-175 *)

\* A file name is its '_'-separated parts and its extension; a part is its
\* '-'-separated fields, each a string: X_15-Mar-2019.pkl is
\* [parts |-> << <<"X">>, <<"15", "Mar", "2019">> >>, ext |-> "pkl"].
FileName(parts, ext) == [parts |-> parts, ext |-> ext]

\* line 141: f.endswith('.pkl')
EndsWithPkl(f) == f.ext = "pkl"

\* line 141: os.path.join(directory_path, f); lines 144, 151: os.path.basename(x)
JoinPath(dir, f) == [dir |-> dir, name |-> f]
Basename(path) == path.name

\* values of the %d, %b and %Y fields that occur in the file names of the model
DayOf == [t \in {"01", "02", "15", "30"} |->
            CASE t = "01" -> 1 [] t = "02" -> 2 [] t = "15" -> 15 [] OTHER -> 30]
MonthOf == [t \in {"Jan", "Feb", "Mar"} |->
            CASE t = "Jan" -> 1 [] t = "Feb" -> 2 [] OTHER -> 3]
YearOf == [t \in {"2019", "2020"} |-> IF t = "2019" THEN 2019 ELSE 2020]

DaysInMonth(m, y) ==
    IF m = 2 THEN (IF y % 4 = 0 /\ (y % 100 # 0 \/ y % 400 = 0) THEN 29 ELSE 28)
    ELSE IF m \in {4, 6, 9, 11} THEN 30 ELSE 31

Failed(err) == [ok |-> FALSE, err |-> err, key |-> 0]
Parsed(key) == [ok |-> TRUE, err |-> None, key |-> key]

\* a buggy parser: a token that is no date sorts first instead of raising
LenientStrptime(fields) ==
    IF /\ Len(fields) = 3
       /\ fields[1] \in DOMAIN DayOf
       /\ fields[2] \in DOMAIN MonthOf
       /\ fields[3] \in DOMAIN YearOf
    THEN Parsed(YearOf[fields[3]] * 372 + MonthOf[fields[2]] * 31 + DayOf[fields[1]])
    ELSE Parsed(0)

\* line 144: datetime.strptime(token, '%d-%b-%Y'); the key orders as the date does
Strptime(fields) ==
    IF /\ Len(fields) = 3
       /\ fields[1] \in DOMAIN DayOf
       /\ fields[2] \in DOMAIN MonthOf
       /\ fields[3] \in DOMAIN YearOf
    THEN LET d == DayOf[fields[1]]
             m == MonthOf[fields[2]]
             y == YearOf[fields[3]]
         IN  IF d <= DaysInMonth(m, y) THEN Parsed(y * 372 + m * 31 + d)
             ELSE Failed("ValueError")
    ELSE Failed("ValueError")

\* line 144: the sort key of a path;
\* os.path.basename(x).split('_')[1].replace('.pkl', '') is the second part
SortKey(path) ==
    LET parts == Basename(path).parts
    IN  IF Len(parts) < 2 THEN Failed("IndexError") ELSE Strptime(parts[2])

\* line 151: os.path.basename(file_path).split('.')[0]
SessionName(path) == Basename(path).parts

RECURSIVE SelectPkl(_, _)
\* line 141: the .pkl entries of the listing, joined to the directory
SelectPkl(dir, names) ==
    IF names = <<>> THEN <<>>
    ELSE IF EndsWithPkl(Head(names))
         THEN <<JoinPath(dir, Head(names))>> \o SelectPkl(dir, Tail(names))
         ELSE SelectPkl(dir, Tail(names))

\* a buggy insertion: descending dates
InsertDescending(sorted, path) ==
    LET later == SelectSeq(sorted, LAMBDA q : SortKey(q).key >= SortKey(path).key)
        rest == SelectSeq(sorted, LAMBDA q : SortKey(q).key < SortKey(path).key)
    IN  later \o <<path>> \o rest

\* a path takes its place after every path whose key is not greater: the sort is stable
InsertByKey(sorted, path) ==
    LET upto == SelectSeq(sorted, LAMBDA q : SortKey(q).key <= SortKey(path).key)
        rest == SelectSeq(sorted, LAMBDA q : SortKey(q).key > SortKey(path).key)
    IN  upto \o <<path>> \o rest

RECURSIVE SortByDate(_)
\* line 144: file_paths.sort(key=...), a stable ascending sort
SortByDate(paths) ==
    IF paths = <<>> THEN <<>>
    ELSE InsertByKey(SortByDate(SubSeq(paths, 1, Len(paths) - 1)), paths[Len(paths)])

\* line 144: the keys are computed in list order; the first failure is raised
RECURSIVE FirstKeyError(_)
FirstKeyError(paths) ==
    IF paths = <<>> THEN None
    ELSE IF SortKey(Head(paths)).ok THEN FirstKeyError(Tail(paths))
         ELSE SortKey(Head(paths)).err

\* line 154: extract_spike_trains_from_pickle(file_path, pre_stimulus_time,
\* full_post_stimulus_time, extract_entire_session=True) against the signature of
\* line 8: the third positional argument binds plot_start_time, and
\* post_stimulus_time keeps its default
BindExtractCall(p) ==
    [pre_stimulus_time |-> p.pre_stimulus_time,
     plot_start_time |-> p.full_post_stimulus_time,
     post_stimulus_time |-> ExtractDefaultPost]

Directory == "spike_trains"

\* lines 141-147: listing, sort, empty result lists
ListAndSort ==
    /\ pc = "start"
    /\ LET paths == SelectPkl(Directory, listing)
           err == FirstKeyError(paths)
       IN  IF err = None
           THEN /\ file_paths' = SortByDate(paths)
                /\ pc' = "loop"
                /\ error' = error
           ELSE /\ file_paths' = paths
                /\ pc' = "aborted"
                /\ error' = err
    /\ avg_sync_values' = <<>>
    /\ session_names' = <<>>
    /\ UNCHANGED <<params, listing, fi, figures>>
    /\ UNCHANGED extractVars
    /\ UNCHANGED syncVars

\* lines 149-154 and 10-16: next file of the loop, pickle.load of any recording of R
LoadSession(R) ==
    /\ pc = "loop"
    /\ fi < Len(file_paths)
    /\ fi' = fi + 1
    /\ data' \in R
    /\ call' = BindExtractCall(params)
    /\ stim_event_spike_trains' = <<>>
    /\ printed' = <<>>
    /\ pc' = "extract"
    /\ UNCHANGED <<params, listing, file_paths, session_names, avg_sync_values,
                   figures, error>>
    /\ UNCHANGED syncVars

RECURSIVE TotalTrains(_)
\* lines 128-130: number of spike trains gathered over all events
TotalTrains(events) ==
    IF events = <<>> THEN 0 ELSE NumTrains(Head(events)) + TotalTrains(Tail(events))

\* lines 160-162 and 127-137: whole-session value, any value of V from spk.spike_sync
SessionSync(V) ==
    /\ pc = "aggregated"
    /\ \E v \in V :
          avg_sync_values' =
              Append(avg_sync_values,
                     IF TotalTrains(stim_event_spike_trains) > 1 THEN v ELSE Zero)
    /\ session_names' = Append(session_names, SessionName(file_paths[fi]))
    /\ pc' = "plot"
    /\ UNCHANGED <<params, listing, file_paths, fi, figures, error>>
    /\ UNCHANGED extractVars
    /\ UNCHANGED syncVars

\* line 103: avg_sync_profile[plot_indices] raises TypeError when avg_sync_profile
\* is the list [] of line 91, which an index array cannot index
IndexableByArray(profile) == profile # <<>>

\* lines 165 and 96-125: the two figures of the session
Plot ==
    /\ pc = "plot"
    /\ IF IndexableByArray(avg_sync_profile)
       THEN /\ figures' = figures \o
                    <<[kind |-> "profile", session |-> SessionName(file_paths[fi])],
                      [kind |-> "histogram", session |-> SessionName(file_paths[fi])]>>
            /\ pc' = "loop"
            /\ error' = error
       ELSE /\ figures' = figures
            /\ pc' = "aborted"
            /\ error' = "TypeError"
    /\ UNCHANGED <<params, listing, file_paths, fi, session_names, avg_sync_values>>
    /\ UNCHANGED extractVars
    /\ UNCHANGED syncVars

\* lines 168-175: the cross-session bar chart
Summary ==
    /\ pc = "loop"
    /\ fi = Len(file_paths)
    /\ figures' = Append(figures, [kind |-> "summary", session |-> session_names])
    /\ pc' = "done"
    /\ UNCHANGED <<params, listing, file_paths, fi, session_names, avg_sync_values, error>>
    /\ UNCHANGED extractVars
    /\ UNCHANGED syncVars

---------------------------------------------------------------------------
(* Inputs of the batch *)

Label(t) == <<t>>
DateToken(d, b, y) == <<d, b, y>>

Jan2020 == FileName(<<Label("X"), DateToken("01", "Jan", "2020")>>, "pkl")
Mar2019 == FileName(<<Label("X"), DateToken("15", "Mar", "2019")>>, "pkl")
Feb2020 == FileName(<<Label("X"), DateToken("02", "Feb", "2020")>>, "pkl")
\* same date as Jan2020, other label
Jan2020Y == FileName(<<Label("Y"), DateToken("01", "Jan", "2020")>>, "pkl")
\* X_notadate.pkl, X.pkl, X_30-Feb-2020.pkl, notes_2020.txt
NoDate == FileName(<<Label("X"), Label("notadate")>>, "pkl")
NoUnderscore == FileName(<<Label("X")>>, "pkl")
NoSuchDay == FileName(<<Label("X"), DateToken("30", "Feb", "2020")>>, "pkl")
Notes == FileName(<<Label("notes"), Label("2020")>>, "txt")

FileNames == {Jan2020, Mar2019, Feb2020, Jan2020Y, NoDate, NoUnderscore, NoSuchDay, Notes}

\* a directory listing: distinct names in any order
Listings ==
    {l \in SeqsUpTo(FileNames, MaxFiles) : \A i, j \in 1..Len(l) : l[i] = l[j] => i = j}

BatchParams ==
    {NoParams,
     [NoParams EXCEPT !.full_post_stimulus_time = Frac(5, 2)],
     [NoParams EXCEPT !.pre_stimulus_time = Frac(-1, 2), !.post_stimulus_time = Frac(1, 2)]}

Recording(dict, stim) ==
    [unit_spike_train_dict |-> dict, stim_trains |-> stim, sampling_rate |-> Frac(1, 1)]

TwoUnits == [u \in {"u1", "u2"} |-> IF u = "u1" THEN {1, 3} ELSE {2}]

\* two units and one stimulus; two units and an empty stimulus entry before a
\* full one; one unit; two units and no usable stimulus
BatchRecordings ==
    {Recording(TwoUnits, <<Single(1)>>),
     Recording(TwoUnits, <<List(<<>>), List(<<1, 3>>)>>),
     Recording([u \in {"u1"} |-> {1, 3}], <<Single(1)>>),
     Recording(TwoUnits, <<List(<<>>)>>)}

BatchProfiles == {ProfileOf(2, "one"), ProfileOf(3, "rise")}
SyncValues == {Frac(1, 2), Frac(1, 1)}

Init ==
    /\ pc = "start"
    /\ error = None
    /\ params \in BatchParams
    /\ listing \in Listings
    /\ file_paths = <<>>
    /\ fi = 0
    /\ session_names = <<>>
    /\ avg_sync_values = <<>>
    /\ figures = <<>>
    /\ data = NoData
    /\ call = NoCall
    /\ stim_event_spike_trains = <<>>
    /\ printed = <<>>
    /\ SyncIdle

Load == LoadSession(BatchRecordings)
SyncBatchStep == SyncEvent(BatchProfiles)
SessionValue == SessionSync(SyncValues)

Next ==
    \/ ListAndSort
    \/ Load
    \/ Extract
    \/ SyncEnter
    \/ SyncBatchStep
    \/ Aggregate
    \/ SessionValue
    \/ Plot
    \/ Summary

Spec == Init /\ [][Next]_vars

---------------------------------------------------------------------------
(* Claims about process_multiple_sessions_from_directory, checked under Spec *)

\* the .pkl names of the listing
PklNames == {listing[i] : i \in 1..Len(listing)} \cap {f \in FileNames : f.ext = "pkl"}

\* the date a name carries after its first underscore, as <<year, month, day>>;
\* <<>> when it carries none
DateIn(f) ==
    IF /\ Len(f.parts) >= 2
       /\ Len(f.parts[2]) = 3
       /\ f.parts[2][1] \in {"01", "02", "15", "30"}
       /\ f.parts[2][2] \in {"Jan", "Feb", "Mar"}
       /\ f.parts[2][3] \in {"2019", "2020"}
       /\ ~(f.parts[2][1] = "30" /\ f.parts[2][2] = "Feb")
    THEN <<IF f.parts[2][3] = "2019" THEN 2019 ELSE 2020,
           CASE f.parts[2][2] = "Jan" -> 1 [] f.parts[2][2] = "Feb" -> 2 [] OTHER -> 3,
           CASE f.parts[2][1] = "01" -> 1 [] f.parts[2][1] = "02" -> 2
             [] f.parts[2][1] = "15" -> 15 [] OTHER -> 30>>
    ELSE <<>>

NotLater(a, b) ==
    \/ a[1] < b[1]
    \/ a[1] = b[1] /\ a[2] < b[2]
    \/ a[1] = b[1] /\ a[2] = b[2] /\ a[3] <= b[3]

AllDated == \A f \in PklNames : DateIn(f) # <<>>

\* files whose result has been appended: all files started, but for the one in progress
Recorded == IF pc \in {"extract", "extracted", "calc", "aggregated"} THEN fi - 1 ELSE fi

\* C1: the .pkl files are processed in ascending order of the date in their name,
\* one at a time, and at every moment session_names and avg_sync_values hold
\* exactly one entry per processed file, in that order.
C1_ResultsInDateOrder ==
    (pc \notin {"start", "aborted"} \/ error = "TypeError") =>
        /\ {file_paths[i].name : i \in 1..Len(file_paths)} = PklNames
        /\ Len(file_paths) = Cardinality(PklNames)
        /\ \A i, j \in 1..Len(file_paths) :
              i < j => NotLater(DateIn(file_paths[i].name), DateIn(file_paths[j].name))
        /\ fi \in 0..Len(file_paths)
        /\ Recorded \in 0..fi
        /\ Len(session_names) = Recorded
        /\ Len(avg_sync_values) = Recorded
        /\ \A i \in 1..Recorded : session_names[i] = file_paths[i].name.parts

\* C1 witness: the listing 01-Jan-2020, 15-Mar-2019, 02-Feb-2020 has been processed
\* to the end as 15-Mar-2019, 01-Jan-2020, 02-Feb-2020.
C1_Witness ==
    /\ pc = "done"
    /\ listing = <<Jan2020, Mar2019, Feb2020>>
    /\ session_names = <<Mar2019.parts, Jan2020.parts, Feb2020.parts>>
    /\ Len(avg_sync_values) = 3

\* C5: a session in which no event produced a profile has an empty
\* avg_sync_profile and avg_sync_value 0, and the batch completes it without an
\* error and goes on.
C5_EmptySessionCompletes ==
    (pc \in {"aggregated", "plot", "loop", "done", "aborted"} /\ fi >= 1
        /\ sync_profiles = <<>>)
    => /\ avg_sync_profile = <<>>
       /\ avg_sync_value = Zero
       /\ error = None
       /\ pc # "aborted"

\* C6: the post bound of the extraction window, as sample bound and as edge, is
\* the full_post_stimulus_time argument of the batch call.
C6_ExtractsUpToFullPost ==
    (pc \in {"extracted", "calc", "aggregated", "plot"}) =>
        /\ call.pre_stimulus_time = params.pre_stimulus_time
        /\ call.post_stimulus_time = params.full_post_stimulus_time
        /\ \A j \in EventIndices :
              \A u \in DOMAIN Events[j].spike_trains :
                 /\ Events[j].spike_trains[u].edges =
                        <<params.pre_stimulus_time, params.full_post_stimulus_time>>
                 /\ \A t \in data.unit_spike_train_dict[u] :
                       (Rescaled(t, Events[j].stim_time) \in Events[j].spike_trains[u].spikes)
                       <=> /\ Events[j].stim_time + Offset(params.pre_stimulus_time) <= t
                           /\ t <= Events[j].stim_time + Offset(params.full_post_stimulus_time)

\* C9: when a .pkl name of the listing carries no valid date after its first
\* underscore, the run aborts with the parse error before any session result is
\* appended, and no figure, the summary included, is ever shown.
C9_BadNameAbortsBeforeAnyResult ==
    ~AllDated =>
        /\ pc \in {"start", "aborted"}
        /\ pc = "aborted" => error \in {"ValueError", "IndexError"}
        /\ fi = 0
        /\ session_names = <<>>
        /\ avg_sync_values = <<>>
        /\ figures = <<>>

\* C9 witness: two well-named files listed before X_notadate.pkl; the run has
\* aborted with ValueError.
C9_Witness ==
    /\ pc = "aborted"
    /\ error = "ValueError"
    /\ listing = <<Mar2019, Jan2020, NoDate>>
    /\ session_names = <<>>

\* the orders in which the directory could have listed the same names
Reorderings ==
    {[i \in 1..Len(listing) |-> listing[f[i]]] : f \in Permutations(1..Len(listing))}

\* C10: for a fixed set of valid names, the processing order is the same whatever
\* the order of the directory listing, also when two names carry the same date.
C10_OrderIndependentOfListing ==
    (pc \notin {"start", "aborted"}) =>
        \A other \in Reorderings : SortByDate(SelectPkl(Directory, other)) = file_paths

====
